---- MODULE Spec2Model ----
(***************************************************************************)
(* Model of src/benchmarking.py (Codec-SUPERB): compute_metrics,           *)
(* batched_dataset, process_entry and evaluate_dataset.                    *)
(*                                                                         *)
(* Scalars (Python floats) are exact rationals [n, d] in lowest terms;     *)
(* d = 0 is not-a-number.  Floating-point rounding is outside the model.   *)
(***************************************************************************)
EXTENDS Integers, Sequences, FiniteSets, TLC

VARIABLES
    c,                \* the loaded DatasetDict: split name -> sequence of entries
    keys,             \* c.keys() in iteration order
    mode,             \* argument mode
    batch_size,       \* argument batch_size
    specific_models,  \* argument specific_models (None or a list)
    max_duration,     \* argument max_duration
    pc,               \* position in evaluate_dataset
    models,           \* local models (line 53)
    mi,               \* position of the for-model loop in models (1-based)
    id_dict,          \* local id_dict (line 61)
    metrics_results,  \* local metrics_results (line 64)
    it,               \* number of items already taken from dataset_iterable
    result_data,      \* local result_data (line 55)
    out_file,         \* the output file
    built,            \* history: models for which id_dict was built and c['original'] iterated
    processed,        \* history: entries handed to compute_metrics for the current model
    call,             \* argument record of a single function application
    ret               \* its result

mainvars == <<c, keys, mode, batch_size, specific_models, max_duration, pc, models, mi,
              id_dict, metrics_results, it, result_data, out_file, built, processed>>
purevars == <<call, ret>>
vars == <<mainvars, purevars>>

---------------------------------------------------------------------------
(* Bounds *)

MaxEntries == 2
MaxBatch == 2
MaxItems == 5
MaxRecords == 3
MaxPadLen == 3

Ids == {1, 2}
Rates == {1, 2}
MaxDurations == {1}
ModelNames == {"a", "b"}
MetricNames == {"m1", "m2"}

---------------------------------------------------------------------------
(* Scalars *)

NaN == [n |-> 0, d |-> 0]

Num(v) == [n |-> v, d |-> 1]

IsNaN(x) == x.d = 0

Abs(x) == IF x < 0 THEN -x ELSE x

RECURSIVE GCD(_, _)
GCD(a, b) == IF b = 0 THEN a ELSE GCD(b, a % b)

\* the rational n/d (d > 0) in lowest terms
Frac(n, d) == LET g == GCD(Abs(n), d) IN [n |-> n \div g, d |-> d \div g]

RatAdd(x, y) == Frac(x.n * y.d + y.n * x.d, x.d * y.d)

RatLeq(x, y) == x.n * y.d <= y.n * x.d

RECURSIVE RatSum(_)
RatSum(xs) == IF xs = <<>> THEN Num(0) ELSE RatAdd(xs[1], RatSum(Tail(xs)))

NotNaN(x) == ~IsNaN(x)

\* np.mean in place of np.nanmean: a NaN among the values makes the mean NaN
NanMean_Plain(v) ==
    LET s == RatSum(v)
    IN IF v = <<>> \/ \E i \in DOMAIN v : IsNaN(v[i]) THEN NaN
       ELSE Frac(s.n, s.d * Len(v))

RECURSIVE RunningMean(_, _)
RunningMean(acc, xs) ==
    IF xs = <<>> THEN acc
    ELSE LET s == RatAdd(acc, xs[1]) IN RunningMean(Frac(s.n, s.d * 2), Tail(xs))

\* a running average (acc + x) / 2 in place of the mean
NanMean_Running(v) ==
    LET xs == SelectSeq(v, NotNaN)
    IN IF xs = <<>> THEN NaN ELSE RunningMean(xs[1], Tail(xs))

\* np.nanmean: the mean of the values that are not NaN; NaN when there is none
NanMean(v) ==
    LET xs == SelectSeq(v, NotNaN)
        s == RatSum(xs)
    IN IF xs = <<>> THEN NaN ELSE Frac(s.n, s.d * Len(xs))

---------------------------------------------------------------------------
(* Collaborators of compute_metrics *)

RECURSIVE Zeros(_)
Zeros(k) == IF k <= 0 THEN <<>> ELSE <<0>> \o Zeros(k - 1)

Max(a, b) == IF a >= b THEN a ELSE b

\* codec.general.pad_arrays_to_match: the shorter array is zero-filled at its end
\* up to the length of the longer one
PadArraysToMatch(array1, array2) ==
    LET n == Max(Len(array1), Len(array2))
    IN <<array1 \o Zeros(n - Len(array1)), array2 \o Zeros(n - Len(array2))>>

\* audiotools.AudioSignal(array, sampling_rate)
AudioSignal(array, sampling_rate) == [audio_data |-> array, sample_rate |-> sampling_rate]

\* AudioSignal.duration: signal length divided by sample rate
Duration(signal) == Frac(Len(signal.audio_data), signal.sample_rate)

RECURSIVE SqErr(_, _, _)
SqErr(o, r, i) ==
    IF i > Len(o) \/ i > Len(r) THEN 0
    ELSE (o[i] - r[i]) * (o[i] - r[i]) + SqErr(o, r, i + 1)

RECURSIVE Energy(_, _)
Energy(o, i) == IF i > Len(o) THEN 0 ELSE o[i] * o[i] + Energy(o, i + 1)

\* metrics.get_metrics: a pure function of the two signals to a record of scalars
\* over a fixed set of metric names.  m1 is the squared error per unit of sample
\* rate, m2 the ratio of the original's energy to the error's energy,
\* not-a-number when the error is zero.
GetMetrics(original_signal, model_signal) ==
    LET o == original_signal.audio_data
        r == model_signal.audio_data
        err == SqErr(o, r, 1) + Abs(Len(o) - Len(r))
        eng == Energy(o, 1)
    IN [k \in MetricNames |->
          IF k = "m1" THEN Frac(err, original_signal.sample_rate)
          ELSE IF err = 0 THEN NaN ELSE Frac(eng, err)]

---------------------------------------------------------------------------
(* compute_metrics, batched_dataset, process_entry *)

Entry(id, array, sampling_rate) ==
    [id |-> id, audio |-> [array |-> array, sampling_rate |-> sampling_rate]]

\* what a call of compute_metrics ends in: a KeyError, None, or a metrics record;
\* compared holds the two arrays wrapped as the signals given to get_metrics
Outcome(kind, metrics, compared) == [kind |-> kind, metrics |-> metrics, compared |-> compared]

\* the model signal built from the array of id_dict as it is, not from the padded one
ComputeMetrics_Unpadded(entry, id_dict_, max_duration_) ==
    IF entry.id \notin DOMAIN id_dict_
    THEN Outcome("KeyError", <<>>, <<>>)
    ELSE LET padded == PadArraysToMatch(entry.audio.array, id_dict_[entry.id])
             sampling_rate == entry.audio.sampling_rate
             original_signal == AudioSignal(padded[1], sampling_rate)
         IN IF ~RatLeq(Duration(original_signal), Num(max_duration_))
            THEN Outcome("None", <<>>, <<>>)
            ELSE LET model_signal == AudioSignal(id_dict_[entry.id], sampling_rate)
                 IN Outcome("metrics", GetMetrics(original_signal, model_signal),
                            <<original_signal.audio_data, model_signal.audio_data>>)

\* the duration is tested on the entry's own array before the lookup in id_dict
ComputeMetrics_DurationFirst(entry, id_dict_, max_duration_) ==
    LET sampling_rate == entry.audio.sampling_rate
    IN IF ~RatLeq(Duration(AudioSignal(entry.audio.array, sampling_rate)), Num(max_duration_))
       THEN Outcome("None", <<>>, <<>>)
       ELSE IF entry.id \notin DOMAIN id_dict_
       THEN Outcome("KeyError", <<>>, <<>>)
       ELSE LET padded == PadArraysToMatch(entry.audio.array, id_dict_[entry.id])
                original_signal == AudioSignal(padded[1], sampling_rate)
                model_signal == AudioSignal(padded[2], sampling_rate)
            IN Outcome("metrics", GetMetrics(original_signal, model_signal),
                       <<original_signal.audio_data, model_signal.audio_data>>)

\* an id missing from id_dict is skipped (id_dict.get) instead of raising
ComputeMetrics_SkipMissing(entry, id_dict_, max_duration_) ==
    IF entry.id \notin DOMAIN id_dict_
    THEN Outcome("None", <<>>, <<>>)
    ELSE LET padded == PadArraysToMatch(entry.audio.array, id_dict_[entry.id])
             sampling_rate == entry.audio.sampling_rate
             original_signal == AudioSignal(padded[1], sampling_rate)
         IN IF ~RatLeq(Duration(original_signal), Num(max_duration_))
            THEN Outcome("None", <<>>, <<>>)
            ELSE LET model_signal == AudioSignal(padded[2], sampling_rate)
                 IN Outcome("metrics", GetMetrics(original_signal, model_signal),
                            <<original_signal.audio_data, model_signal.audio_data>>)

ComputeMetrics(entry, id_dict_, max_duration_) ==
    IF entry.id \notin DOMAIN id_dict_
    THEN Outcome("KeyError", <<>>, <<>>)
    ELSE LET padded == PadArraysToMatch(entry.audio.array, id_dict_[entry.id])
             original_arrays == padded[1]
             resynth_array == padded[2]
             sampling_rate == entry.audio.sampling_rate
             original_signal == AudioSignal(original_arrays, sampling_rate)
         IN IF ~RatLeq(Duration(original_signal), Num(max_duration_))
            THEN Outcome("None", <<>>, <<>>)
            ELSE LET model_signal == AudioSignal(resynth_array, sampling_rate)
                 IN Outcome("metrics", GetMetrics(original_signal, model_signal),
                            <<original_signal.audio_data, model_signal.audio_data>>)

RECURSIVE BatchedLoop(_, _, _, _, _)
BatchedLoop(dataset, batch_size_, i, batch, out) ==
    IF i > Len(dataset)
    THEN IF batch # <<>> THEN Append(out, batch) ELSE out
    ELSE LET b == Append(batch, dataset[i])
         IN IF Len(b) = batch_size_
            THEN BatchedLoop(dataset, batch_size_, i + 1, <<>>, Append(out, b))
            ELSE BatchedLoop(dataset, batch_size_, i + 1, b, out)

RECURSIVE BatchedLoop_DropTail(_, _, _, _, _)
BatchedLoop_DropTail(dataset, batch_size_, i, batch, out) ==
    IF i > Len(dataset) THEN out
    ELSE LET b == Append(batch, dataset[i])
         IN IF Len(b) = batch_size_
            THEN BatchedLoop_DropTail(dataset, batch_size_, i + 1, <<>>, Append(out, b))
            ELSE BatchedLoop_DropTail(dataset, batch_size_, i + 1, b, out)

\* the generator without its final "if batch: yield batch"
BatchedDataset_DropTail(dataset, batch_size_) ==
    BatchedLoop_DropTail(dataset, batch_size_, 1, <<>>, <<>>)

\* the sequence of batches the generator yields
BatchedDataset(dataset, batch_size_) == BatchedLoop(dataset, batch_size_, 1, <<>>, <<>>)

\* an item of dataset_iterable: a dict (streaming) or a list of dicts (batch)
DictItem(e) == [type |-> "dict", val |-> e]
ListItem(b) == [type |-> "list", val |-> b]

Appended(state, entry, id_dict_, max_duration_) ==
    LET m == ComputeMetrics(entry, id_dict_, max_duration_)
    IN IF state.raised THEN state
       ELSE IF m.kind = "KeyError" THEN [state EXCEPT !.raised = TRUE]
       ELSE IF m.kind = "metrics"
            THEN [state EXCEPT !.metrics_results = Append(@, m.metrics)]
       ELSE state

RECURSIVE ProcessList(_, _, _, _, _)
ProcessList(items, i, id_dict_, state, max_duration_) ==
    IF i > Len(items) \/ state.raised THEN state
    ELSE ProcessList(items, i + 1, id_dict_,
                     Appended(state, items[i], id_dict_, max_duration_), max_duration_)

\* a batch handled like a single entry: only its first item is processed
ProcessEntry_FirstOnly(entry, id_dict_, metrics_results_, max_duration_) ==
    LET state == [metrics_results |-> metrics_results_, raised |-> FALSE]
    IN IF entry.type = "dict"
       THEN Appended(state, entry.val, id_dict_, max_duration_)
       ELSE IF entry.val = <<>> THEN state
       ELSE Appended(state, entry.val[1], id_dict_, max_duration_)

\* process_entry: the metrics_results it leaves, and whether a KeyError left it
ProcessEntry(entry, id_dict_, metrics_results_, max_duration_) ==
    LET state == [metrics_results |-> metrics_results_, raised |-> FALSE]
    IN IF entry.type = "dict"
       THEN Appended(state, entry.val, id_dict_, max_duration_)
       ELSE ProcessList(entry.val, 1, id_dict_, state, max_duration_)

---------------------------------------------------------------------------
(* Aggregation (evaluate_dataset, lines 70-78) *)

RECURSIVE Column(_, _)
\* aggregated_metrics[k]: the values recorded under k, in the order of the records
Column(results, k) ==
    IF results = <<>> THEN <<>>
    ELSE (IF k \in DOMAIN results[1] THEN <<results[1][k]>> ELSE <<>>)
         \o Column(Tail(results), k)

AggregatedMetrics(results) ==
    [k \in UNION {DOMAIN results[i] : i \in DOMAIN results} |-> Column(results, k)]

ModelResult(results) ==
    LET aggregated_metrics == AggregatedMetrics(results)
    IN [k \in DOMAIN aggregated_metrics |->
          IF aggregated_metrics[k] # <<>> THEN NanMean(aggregated_metrics[k]) ELSE NaN]

---------------------------------------------------------------------------
(* evaluate_dataset *)

None == [given |-> FALSE, names |-> <<>>]
List(names) == [given |-> TRUE, names |-> names]

NotWritten == [written |-> FALSE, data |-> <<>>]
Written(data) == [written |-> TRUE, data |-> data]

Range(s) == {s[i] : i \in DOMAIN s}

NotOriginal(key) == key # "original"

\* "if specific_models and model not in specific_models": an empty list filters nothing
Selected_Truthy(model_) ==
    \/ ~specific_models.given
    \/ specific_models.names = <<>>
    \/ model_ \in Range(specific_models.names)

\* line 57: specific_models is None or model in specific_models
Selected(model_) == ~specific_models.given \/ model_ \in Range(specific_models.names)

\* line 61: {i['id']: i['audio']['array'] for i in split}; a later entry replaces
\* an earlier one of the same id
MakeIdDict(split) ==
    [i \in {split[k].id : k \in DOMAIN split} |->
        LET last == CHOOSE k \in DOMAIN split :
                       /\ split[k].id = i
                       /\ \A j \in DOMAIN split : split[j].id = i => j <= k
        IN split[last].audio.array]

\* line 65: the items the for loop of line 67 takes, in order
DatasetIterable(original, mode_, batch_size_) ==
    IF mode_ = "streaming"
    THEN [i \in DOMAIN original |-> DictItem(original[i])]
    ELSE LET batches == BatchedDataset(original, batch_size_)
         IN [i \in DOMAIN batches |-> ListItem(batches[i])]

Items(entry) == IF entry.type = "dict" THEN <<entry.val>> ELSE entry.val

model == models[mi]

dataset_iterable == DatasetIterable(c["original"], mode, batch_size)

\* lines 52-55
LoadDataset ==
    /\ pc = "start"
    /\ models' = SelectSeq(keys, NotOriginal)
    /\ result_data' = <<>>
    /\ mi' = 1
    /\ pc' = "models"
    /\ UNCHANGED <<c, keys, mode, batch_size, specific_models, max_duration, id_dict,
                   metrics_results, it, out_file, built, processed, purevars>>

\* lines 56-58: the model is filtered out
SkipModel ==
    /\ pc = "models"
    /\ mi <= Len(models)
    /\ ~Selected(model)
    /\ mi' = mi + 1
    /\ UNCHANGED <<c, keys, mode, batch_size, specific_models, max_duration, pc, models,
                   id_dict, metrics_results, it, result_data, out_file, built, processed,
                   purevars>>

\* metrics_results created once before the loop over the models, not per model
StartModel_NoReset ==
    /\ pc = "models"
    /\ mi <= Len(models)
    /\ Selected(models[mi])
    /\ id_dict' = MakeIdDict(c[models[mi]])
    /\ it' = 0
    /\ built' = built \cup {models[mi]}
    /\ processed' = <<>>
    /\ pc' = "entries"
    /\ UNCHANGED <<c, keys, mode, batch_size, specific_models, max_duration, models, mi,
                   metrics_results, result_data, out_file, purevars>>

\* lines 56-65: the model is evaluated; its id_dict is built, the iteration starts
StartModel ==
    /\ pc = "models"
    /\ mi <= Len(models)
    /\ Selected(model)
    /\ id_dict' = MakeIdDict(c[model])
    /\ metrics_results' = <<>>
    /\ it' = 0
    /\ built' = built \cup {model}
    /\ processed' = <<>>
    /\ pc' = "entries"
    /\ UNCHANGED <<c, keys, mode, batch_size, specific_models, max_duration, models, mi,
                   result_data, out_file, purevars>>

\* lines 67-68: one item of dataset_iterable goes through process_entry
ProcessNext ==
    /\ pc = "entries"
    /\ it < Len(dataset_iterable)
    /\ LET entry == dataset_iterable[it + 1]
           r == ProcessEntry(entry, id_dict, metrics_results, max_duration)
       IN /\ metrics_results' = r.metrics_results
          /\ pc' = IF r.raised THEN "raised" ELSE "entries"
          /\ processed' = IF r.raised THEN processed ELSE processed \o Items(entry)
    /\ it' = it + 1
    /\ UNCHANGED <<c, keys, mode, batch_size, specific_models, max_duration, models, mi,
                   id_dict, result_data, out_file, built, purevars>>

\* lines 70-84: the split is exhausted; aggregate, store, release id_dict
AggregateModel ==
    /\ pc = "entries"
    /\ it = Len(dataset_iterable)
    /\ result_data' = (model :> ModelResult(metrics_results)) @@ result_data
    /\ id_dict' = <<>>
    /\ mi' = mi + 1
    /\ pc' = "models"
    /\ UNCHANGED <<c, keys, mode, batch_size, specific_models, max_duration, models,
                   metrics_results, it, out_file, built, processed, purevars>>

\* lines 86-94
SaveResults ==
    /\ pc = "models"
    /\ mi > Len(models)
    /\ out_file' = Written(result_data)
    /\ pc' = "done"
    /\ UNCHANGED <<c, keys, mode, batch_size, specific_models, max_duration, models, mi,
                   id_dict, metrics_results, it, result_data, built, processed, purevars>>

---------------------------------------------------------------------------
(* Inputs *)

RECURSIVE SeqsUpTo(_, _)
SeqsUpTo(S, n) ==
    IF n = 0 THEN {<<>>}
    ELSE LET shorter == SeqsUpTo(S, n - 1)
         IN shorter \cup {Append(s, x) : s \in {t \in shorter : Len(t) = n - 1}, x \in S}

Tone(n) == [i \in 1 .. n |-> 1]

ToneArrays == {Tone(1), Tone(2)}

OriginalEntries == {Entry(i, a, r) : i \in Ids, a \in ToneArrays, r \in Rates}

\* a model split's entries are read for id and array alone
ModelEntries == {Entry(i, a, 1) : i \in Ids, a \in ToneArrays}

\* the splits of a model: each id at most once, in increasing order
ModelSplits ==
    {s \in SeqsUpTo(ModelEntries, MaxEntries) :
        \A i \in DOMAIN s : \A j \in DOMAIN s : i < j => s[i].id < s[j].id}

KeyOrders == {<<"original", "a", "b">>, <<"b", "original", "a">>}

Filters == {None, List(<<>>), List(<<"b", "x">>)}

Pending == [done |-> FALSE, value |-> <<>>]
Returned(value) == [done |-> TRUE, value |-> value]

PureIdle == call = <<>> /\ ret = Pending

Init ==
    /\ keys \in KeyOrders
    /\ \E original \in SeqsUpTo(OriginalEntries, MaxEntries) :
       \E sa \in ModelSplits :
       \E sb \in ModelSplits :
          c = [k \in {"original"} \cup ModelNames |->
                  IF k = "original" THEN original ELSE IF k = "a" THEN sa ELSE sb]
    /\ mode \in {"streaming", "batch"}
    /\ batch_size \in 1 .. MaxBatch
    /\ mode = "streaming" => batch_size = 1   \* read in batch mode alone (line 65)
    /\ specific_models \in Filters
    /\ max_duration \in MaxDurations
    /\ pc = "start"
    /\ models = <<>>
    /\ mi = 0
    /\ id_dict = <<>>
    /\ metrics_results = <<>>
    /\ it = 0
    /\ result_data = <<>>
    /\ out_file = NotWritten
    /\ built = {}
    /\ processed = <<>>
    /\ PureIdle

Next ==
    \/ LoadDataset
    \/ SkipModel
    \/ StartModel
    \/ ProcessNext
    \/ AggregateModel
    \/ SaveResults

Spec == Init /\ [][Next]_vars

---------------------------------------------------------------------------
(* Single applications of compute_metrics, batched_dataset and the aggregation *)

MainIdle ==
    /\ c = <<>> /\ keys = <<>> /\ mode = "streaming" /\ batch_size = 1
    /\ specific_models = None /\ max_duration = 1 /\ pc = "idle" /\ models = <<>>
    /\ mi = 0 /\ id_dict = <<>> /\ metrics_results = <<>> /\ it = 0
    /\ result_data = <<>> /\ out_file = NotWritten /\ built = {} /\ processed = <<>>

Arrays == SeqsUpTo({0, 1}, MaxPadLen) \ {<<>>}

InitCompute ==
    /\ MainIdle
    /\ \E a \in Arrays, b \in Arrays, r \in Rates, d \in 1 .. MaxPadLen :
          call = [entry |-> Entry(1, a, r), id_dict |-> (1 :> b), max_duration |-> d]
    /\ ret = Pending

CallComputeMetrics ==
    /\ ~ret.done
    /\ ret' = Returned(ComputeMetrics(call.entry, call.id_dict, call.max_duration))
    /\ UNCHANGED <<call, mainvars>>

SpecCompute == InitCompute /\ [][CallComputeMetrics]_vars

InitBatch ==
    /\ MainIdle
    /\ \E dataset \in SeqsUpTo({1, 2}, MaxItems), b \in 1 .. MaxBatch :
          call = [dataset |-> dataset, batch_size |-> b]
    /\ ret = Pending

CallBatchedDataset ==
    /\ ~ret.done
    /\ ret' = Returned(BatchedDataset(call.dataset, call.batch_size))
    /\ UNCHANGED <<call, mainvars>>

SpecBatch == InitBatch /\ [][CallBatchedDataset]_vars

Values == {NaN, Num(1), Num(2)}

Records == UNION {[names -> Values] : names \in SUBSET MetricNames}

InitAggregate ==
    /\ MainIdle
    /\ \E results \in SeqsUpTo(Records, MaxRecords) : call = [metrics_results |-> results]
    /\ ret = Pending

CallAggregate ==
    /\ ~ret.done
    /\ ret' = Returned(ModelResult(call.metrics_results))
    /\ UNCHANGED <<call, mainvars>>

SpecAggregate == InitAggregate /\ [][CallAggregate]_vars

---------------------------------------------------------------------------
(* Claims about single applications *)

IsPrefix(a, b) == Len(a) <= Len(b) /\ \A i \in DOMAIN a : a[i] = b[i]

RECURSIVE Concat(_)
Concat(batches) == IF batches = <<>> THEN <<>> ELSE batches[1] \o Concat(Tail(batches))

\* C9: whenever compute_metrics compares two signals, their arrays have the same
\* length, the maximum of the lengths of the entry's array and of the array of
\* id_dict, and each begins with the array it was made from (nothing is cut off).
C9_PaddedToMax ==
    (ret.done /\ ret.value.kind = "metrics") =>
        LET o == call.entry.audio.array
            r == call.id_dict[call.entry.id]
            cmp == ret.value.compared
        IN /\ Len(cmp[1]) = Len(cmp[2])
           /\ Len(cmp[1]) = Max(Len(o), Len(r))
           /\ IsPrefix(o, cmp[1])
           /\ IsPrefix(r, cmp[2])

\* a comparison took place on arrays of different lengths, the resynthesized shorter
C9_Witness ==
    /\ ret.done
    /\ ret.value.kind = "metrics"
    /\ Len(call.id_dict[call.entry.id]) < Len(call.entry.audio.array)
    /\ ret.value.compared[2] # call.id_dict[call.entry.id]

\* C10: the batches of batched_dataset concatenate to the dataset; each is
\* non-empty, each but the last has batch_size items, the last has 1..batch_size;
\* an empty dataset yields no batch; 5 items in batches of 2 give sizes 2, 2, 1.
C10_Batches ==
    ret.done =>
        LET batches == ret.value
            n == Len(batches)
        IN /\ Concat(batches) = call.dataset
           /\ \A i \in 1 .. n : Len(batches[i]) >= 1 /\ Len(batches[i]) <= call.batch_size
           /\ \A i \in 1 .. n - 1 : Len(batches[i]) = call.batch_size
           /\ call.dataset = <<>> => batches = <<>>
           /\ (Len(call.dataset) = 5 /\ call.batch_size = 2) =>
                 [i \in 1 .. n |-> Len(batches[i])] = <<2, 2, 1>>

\* a dataset whose last batch is partial
C10_Witness ==
    /\ ret.done
    /\ Len(call.dataset) = 3
    /\ call.batch_size = 2
    /\ Len(ret.value) = 2
    /\ Len(ret.value[2]) = 1

Permuted(results, p) == [i \in DOMAIN results |-> results[p[i]]]

\* C6: the aggregated result of the records in any other order has the same
\* metric names and the same mean for each.
C6_OrderIndependent ==
    ret.done =>
        \A p \in Permutations(DOMAIN call.metrics_results) :
            ModelResult(Permuted(call.metrics_results, p)) = ret.value

\* three records, not all alike, with a mean that is no record's value
C6_Witness ==
    /\ ret.done
    /\ Len(call.metrics_results) = 3
    /\ call.metrics_results[1] # call.metrics_results[2]
    /\ "m1" \in DOMAIN ret.value
    /\ ret.value["m1"].d = 3

\* the values recorded under k, as numerators (every recorded value is whole or NaN)
RecordedUnder(results, k) == {i \in DOMAIN results : k \in DOMAIN results[i]}

RECURSIVE SumAt(_, _, _)
SumAt(results, k, I) ==
    IF I = {} THEN 0
    ELSE LET i == CHOOSE j \in I : TRUE
         IN results[i][k].n + SumAt(results, k, I \ {i})

NamesIn(results) == UNION {DOMAIN results[i] : i \in DOMAIN results}

\* C7 as stated: every metric name of some record is mapped to the arithmetic mean
\* of all the values recorded under it (a NaN among them makes that mean NaN); one
\* record alone is returned verbatim.
C7_MeanOfAll ==
    ret.done =>
        LET results == call.metrics_results
        IN /\ DOMAIN ret.value = NamesIn(results)
           /\ \A k \in NamesIn(results) :
                 LET I == RecordedUnder(results, k)
                 IN IF \E i \in I : IsNaN(results[i][k])
                    THEN IsNaN(ret.value[k])
                    ELSE /\ ret.value[k].d > 0
                         /\ ret.value[k].n * Cardinality(I) = SumAt(results, k, I) * ret.value[k].d
           /\ Len(results) = 1 => ret.value = results[1]

\* C7 amended: every metric name of some record is mapped to the arithmetic mean
\* of the values recorded under it that are not NaN, and to NaN when all of them
\* are NaN; one record alone is returned verbatim.
C7_MeanOfNumbers ==
    ret.done =>
        LET results == call.metrics_results
        IN /\ DOMAIN ret.value = NamesIn(results)
           /\ \A k \in NamesIn(results) :
                 LET I == {i \in RecordedUnder(results, k) : ~IsNaN(results[i][k])}
                 IN IF I = {}
                    THEN IsNaN(ret.value[k])
                    ELSE /\ ret.value[k].d > 0
                         /\ ret.value[k].n * Cardinality(I) = SumAt(results, k, I) * ret.value[k].d
           /\ Len(results) = 1 => ret.value = results[1]

\* a NaN and a number recorded under the same name
C7_Witness ==
    /\ ret.done
    /\ Len(call.metrics_results) = 2
    /\ "m1" \in DOMAIN call.metrics_results[1]
    /\ "m1" \in DOMAIN call.metrics_results[2]
    /\ IsNaN(call.metrics_results[1]["m1"])
    /\ call.metrics_results[2]["m1"] = Num(2)
    /\ ret.value["m1"] = Num(2)

---------------------------------------------------------------------------
(* Claims about evaluate_dataset *)

\* the duration of the entry's own array: its sample count over its sampling rate
OriginalDuration(e) == Frac(Len(e.audio.array), e.audio.sampling_rate)

WithinMaxDuration(e) == RatLeq(OriginalDuration(e), Num(max_duration))

\* C1: of the entries process_entry has gone through for the current model, each
\* whose own duration is <= max_duration added exactly one record, each longer one
\* none, whatever the length of the resynthesized array.
C1_OneRecordPerShortEntry ==
    pc \in {"entries", "models", "done"} =>
        Len(metrics_results) =
            Cardinality({i \in DOMAIN processed : WithinMaxDuration(processed[i])})

AllNaN(result) == \A k \in DOMAIN result : IsNaN(result[k])

\* C2 as stated: an empty split of an evaluated model does not stop the run; the
\* model's metrics are all NaN and the results are written.
C2_EmptySplitCompletes ==
    /\ pc = "raised" => c[model] # <<>>
    /\ \A m \in DOMAIN result_data : c[m] = <<>> => AllNaN(result_data[m])
    /\ pc = "done" => out_file = Written(result_data)

\* C2 amended: a model with an empty split is evaluated to completion only when
\* the original split is empty too, and its result is then the empty mapping, which
\* is written with the other models' results; with a non-empty original split the
\* first lookup raises and nothing is written.
C2_EmptySplit ==
    /\ \A m \in DOMAIN result_data :
          c[m] = <<>> => c["original"] = <<>> /\ result_data[m] = <<>>
    /\ (pc = "raised" /\ c[model] = <<>>) =>
          /\ c["original"] # <<>>
          /\ it = 1
          /\ out_file = NotWritten
    /\ (pc = "entries" /\ c[model] = <<>>) => it = 0
    /\ pc = "done" => out_file = Written(result_data)

\* a run that completed with an empty split evaluated next to another model
C2_Witness ==
    /\ pc = "done"
    /\ Cardinality(DOMAIN out_file.data) = 2
    /\ c["a"] = <<>>
    /\ c["b"] # <<>>
    /\ out_file.data["a"] = <<>>

ExpectedKeys ==
    IF specific_models.given
    THEN (Range(keys) \ {"original"}) \cap Range(specific_models.names)
    ELSE Range(keys) \ {"original"}

\* C3: a completed run writes exactly the split names other than "original",
\* intersected with specific_models when it is given (an empty list included); for
\* no other model an id_dict is built or the original split iterated.
C3_FilteredKeys ==
    /\ pc = "done" => out_file.written /\ DOMAIN out_file.data = ExpectedKeys
    /\ built \subseteq ExpectedKeys
    /\ pc \in {"entries", "raised"} => model \in ExpectedKeys

\* a completed run under a filter that names a model of the dataset and a stranger
C3_Witness ==
    /\ pc = "done"
    /\ specific_models = List(<<"b", "x">>)
    /\ DOMAIN out_file.data = {"b"}
    /\ built = {"b"}
    /\ c["a"] # <<>>

MissingAhead ==
    /\ pc = "entries"
    /\ it < Len(dataset_iterable)
    /\ \E e \in Range(Items(dataset_iterable[it + 1])) : e.id \notin DOMAIN id_dict

\* C4: an item with an id absent from id_dict, whatever its duration, ends the run
\* in the raised KeyError; no step follows it and the output file stays unwritten.
C4_MissingIdAborts ==
    [][/\ MissingAhead => pc' = "raised"
       /\ pc' = "raised" => out_file' = NotWritten /\ result_data' = result_data
       /\ pc # "raised"]_vars

\* the lookup failed for an entry longer than max_duration after a model was
\* fully evaluated
C4_Witness ==
    /\ pc = "raised"
    /\ mode = "streaming"
    /\ result_data # <<>>
    /\ ~WithinMaxDuration(c["original"][it])
    /\ out_file = NotWritten

RECURSIVE StreamFold(_, _, _, _)
\* the streaming loop: process_entry on one dict after the other
StreamFold(original, i, id_dict_, state) ==
    IF i > Len(original) \/ state.raised THEN state
    ELSE StreamFold(original, i + 1, id_dict_,
                    ProcessEntry(DictItem(original[i]), id_dict_, state.metrics_results,
                                 max_duration))

Streamed(m) ==
    StreamFold(c["original"], 1, MakeIdDict(c[m]), [metrics_results |-> <<>>, raised |-> FALSE])

\* C5: in batch mode, for any batch_size, a model's loop goes through the entries
\* of the original split in their order, leaves the metrics_results streaming
\* leaves, raises exactly when streaming raises, and the written means are those
\* of streaming.
C5_BatchEqualsStreaming ==
    mode = "batch" =>
        /\ (pc = "entries" /\ it = Len(dataset_iterable)) =>
              /\ processed = c["original"]
              /\ ~Streamed(model).raised
              /\ metrics_results = Streamed(model).metrics_results
        /\ pc = "raised" => Streamed(model).raised
        /\ pc = "done" =>
              \A m \in DOMAIN out_file.data :
                 out_file.data[m] = ModelResult(Streamed(m).metrics_results)

\* batch mode completed with a partial batch and a record for its entry
C5_Witness ==
    /\ pc = "done"
    /\ mode = "batch"
    /\ batch_size = 2
    /\ Len(c["original"]) = 1
    /\ Len(metrics_results) = 1
    /\ \E m \in DOMAIN out_file.data : out_file.data[m] # <<>>

\* the result of evaluating m in a dataset that holds the original split and m alone
AloneResult(m) ==
    LET id_dict_ == MakeIdDict(c[m])
        alone == StreamFold(c["original"], 1, id_dict_,
                            [metrics_results |-> <<>>, raised |-> FALSE])
    IN ModelResult(alone.metrics_results)

\* C8: on a completed run the result written for each model is the one it has
\* alone: a function of its split, the original split and max_duration.
C8_Independent ==
    pc = "done" => \A m \in DOMAIN out_file.data : out_file.data[m] = AloneResult(m)

\* two models evaluated in one run with different, non-empty results
C8_Witness ==
    /\ pc = "done"
    /\ DOMAIN out_file.data = {"a", "b"}
    /\ out_file.data["a"] # <<>>
    /\ out_file.data["b"] # <<>>
    /\ out_file.data["a"] # out_file.data["b"]
    /\ keys[1] = "b"

====
